---------------------------- MODULE Spec2Model ----------------------------
(***************************************************************************)
(* Model of src/src/components/ComprehensiveStudy.tsx: the quiz screen of  *)
(* the language-learning application.  The component keeps nine useState   *)
(* fields and one <video> element; every handler runs to completion on a   *)
(* discrete UI event, so each handler is one atomic action.                *)
(*                                                                         *)
(* The lesson table is static data.  The component reads it only through   *)
(* lessons[currentLesson].questions[currentQuestion], so the model runs    *)
(* the component over the repository's table (RepoLessons) and over other  *)
(* tables of the same shape; the table is chosen in Init and never         *)
(* changes.                                                                *)
(***************************************************************************)
EXTENDS Integers, Sequences, FiniteSets, TLC

\* ------------------------------------------------------------ bounds ----
\* Synthetic lesson tables have 1..MaxLessons lessons of 1..MaxQuestions
\* questions; their video-choice questions have NumOptions options and their
\* word-order questions NumWords words.
MaxLessons == 2
MaxQuestions == 2
NumOptions == 2
NumWords == 2

\* ------------------------------------------------- program constants ----
InitialLives == 3
PointsPerCorrect == 10
\* useState<number | null>(null): the null of selectedAnswer
NoAnswer == -1
\* options: ['田中', '山田', '佐藤', '鈴木'] and the three words of the table
RepoOptions == 4
RepoWords == 3

\* ------------------------------------------------------ lesson data ----
\* A question: its type, the number of options, the correct option index
\* (video-choice), the words and the correct sentence (word-order), whether
\* it has a hint.  A text is the sequence of its UTF-16 code units.
VideoChoice(n, c, h) ==
    [type |-> "video-choice", options |-> n, correct |-> c,
     words |-> <<>>, sentence |-> <<>>, hint |-> h]

WordOrder(ws, s, h) ==
    [type |-> "word-order", options |-> 0, correct |-> NoAnswer,
     words |-> ws, sentence |-> s, hint |-> h]

\* The repository's table with the order of two words exchanged.
RepoLessons_wrongOrder ==
    << << VideoChoice(RepoOptions, 0, TRUE),
          WordOrder(<< [text |-> <<12391, 12377, 12290>>, order |-> 3],
                       [text |-> <<30000, 20013>>, order |-> 1],
                       [text |-> <<31169, 12399>>, order |-> 2] >>,
                    <<31169, 12399, 30000, 20013, 12391, 12377, 12290>>,
                    TRUE) >> >>

\* The table of the repository: one lesson, a video-choice question with
\* four options (correct: 0) and a word-order question with the three words
\* 'です。' (order 3), '田中' (order 2), '私は' (order 1) and the correct
\* sentence '私は田中です。'.
RepoLessons ==
    << << VideoChoice(RepoOptions, 0, TRUE),
          WordOrder(<< [text |-> <<12391, 12377, 12290>>, order |-> 3],
                       [text |-> <<30000, 20013>>, order |-> 2],
                       [text |-> <<31169, 12399>>, order |-> 1] >>,
                    <<31169, 12399, 30000, 20013, 12391, 12377, 12290>>,
                    TRUE) >> >>

SynthChoice == VideoChoice(NumOptions, NumOptions - 1, TRUE)

\* Words 'a', 'b', ... listed in the reverse of their order, and the
\* sentence they make.
SynthWords ==
    [k \in 1..NumWords |-> [text |-> << 96 + k >>, order |-> NumWords + 1 - k]]

SynthSentence == [i \in 1..NumWords |-> 96 + (NumWords + 1 - i)]

SynthWordOrder == WordOrder(SynthWords, SynthSentence, FALSE)

\* The number of questions in the first l lessons of a table whose lessons
\* have lens[1], lens[2], ... questions.
RECURSIVE Before(_, _)
Before(lens, l) == IF l = 0 THEN 0 ELSE Before(lens, l - 1) + lens[l]

\* A table whose l-th lesson has lens[l] questions, all video-choice except
\* that the w-th question overall (w = 0: none) is a word-order question.
SynthTable(lens, w) ==
    [l \in 1..Len(lens) |->
        [q \in 1..lens[l] |->
            IF Before(lens, l - 1) + q = w
               THEN SynthWordOrder
               ELSE SynthChoice]]

LessonLengths ==
    UNION { [1..n -> 1..MaxQuestions] : n \in 1..MaxLessons }

Max(a, b) == IF a < b THEN b ELSE a

\* The option and word indices (0-based) a click can carry.
OptionIndices == 0..(Max(RepoOptions, NumOptions) - 1)
WordIndices == 0..(Max(RepoWords, NumWords) - 1)

Tables ==
    {RepoLessons} \cup
    UNION { { SynthTable(lens, w) : w \in 0..Before(lens, Len(lens)) } :
            lens \in LessonLengths }

\* -------------------------------------------------------------- state ----
VARIABLES
    lessons,          \* the lesson table (static)
    currentLesson,    \* 0-based index into lessons
    currentQuestion,  \* 0-based index into lesson.questions
    selectedAnswer,   \* option index or NoAnswer
    showAnswer,       \* the answer is revealed
    lives,
    showHint,
    score,
    orderedWords,     \* sequence of word identities, in pick order
    isPlaying,
    videoPaused,      \* the paused attribute of the <video> element
    screen,           \* "quiz", or how the screen was left
    lastEvent         \* the UI event handled last

vars == << lessons, currentLesson, currentQuestion, selectedAnswer, showAnswer,
           lives, showHint, score, orderedWords, isPlaying, videoPaused,
           screen, lastEvent >>

session == << currentLesson, currentQuestion, selectedAnswer, showAnswer,
              lives, showHint, score, orderedWords, isPlaying >>

Event(op, arg) == [op |-> op, arg |-> arg]

\* const lesson = lessons[currentLesson]
lesson == lessons[currentLesson + 1]

\* const question = lesson.questions[currentQuestion]
question == lesson[currentQuestion + 1]

\* The identity of the k-th word object (0-based) of the current question.
Word(k) == << currentLesson, currentQuestion, k >>

\* orderedWords.includes(word)
Includes(s, w) == \E j \in 1..Len(s) : s[j] = w

Init ==
    /\ lessons \in Tables
    /\ currentLesson = 0
    /\ currentQuestion = 0
    /\ selectedAnswer = NoAnswer
    /\ showAnswer = FALSE
    /\ lives = InitialLives
    /\ showHint = FALSE
    /\ score = 0
    /\ orderedWords = << >>
    /\ isPlaying = FALSE
    /\ videoPaused = TRUE
    /\ screen = "quiz"
    /\ lastEvent = Event("mount", NoAnswer)

\* ---------------------------------------------------------- rendering ----
\* The component is mounted on the quiz route.
Mounted == screen = "quiz"

\* if (lives === 0) return <game-over panel>
GameOver == Mounted /\ lives = 0

\* The main panel rendered without the lives === 0 branch before it.
QuestionShown_noGameOver == Mounted

\* The main panel (question, hint, explanation) is rendered.
QuestionShown == Mounted /\ lives # 0

\* The <video> element and the option buttons of renderQuestion.
VideoShown == QuestionShown /\ question.type = "video-choice"

\* The word buttons of renderQuestion.
WordsShown == QuestionShown /\ question.type = "word-order"

\* A hint button that stays after the reveal.
HintButtonShown_afterReveal == QuestionShown /\ question.hint

\* {!showAnswer && question.hint && <button ...>}
HintButtonShown == QuestionShown /\ ~showAnswer /\ question.hint

\* A next button shown whether or not the answer is revealed.
NextButtonShown_always == QuestionShown

\* {showAnswer && (... <button onClick={handleNext}> ...)}
NextButtonShown == QuestionShown /\ showAnswer

\* The paused attribute of the <video> element after the re-render that
\* follows a handler: p when the element was shown and is still shown (React
\* keeps the element), TRUE for a newly created element and for none.
PausedAfterRender(p, shownAfter) ==
    IF VideoShown /\ shownAfter THEN p ELSE TRUE

\* Whether question q of lesson l (0-based) is rendered with a <video>.
IsVideo(l, q) == lessons[l + 1][q + 1].type = "video-choice"

\* ----------------------------------------------------------- handlers ----
\* handleAnswer that awards the points whatever the answer is.
handleAnswer_alwaysScores(answerIndex) ==
    /\ selectedAnswer' = answerIndex
    /\ showAnswer' = TRUE
    /\ score' = score + PointsPerCorrect
    /\ lives' = IF answerIndex = question.correct THEN lives ELSE lives - 1
    /\ UNCHANGED << currentLesson, currentQuestion, showHint, orderedWords,
                    isPlaying >>

\* handleAnswer that awards half the points.
handleAnswer_halfPoints(answerIndex) ==
    /\ selectedAnswer' = answerIndex
    /\ showAnswer' = TRUE
    /\ IF answerIndex = question.correct
          THEN /\ score' = score + (PointsPerCorrect \div 2)
               /\ lives' = lives
          ELSE /\ lives' = lives - 1
               /\ score' = score
    /\ UNCHANGED << currentLesson, currentQuestion, showHint, orderedWords,
                    isPlaying >>

\* handleAnswer(answerIndex), on the nine session fields
handleAnswer(answerIndex) ==
    /\ selectedAnswer' = answerIndex
    /\ showAnswer' = TRUE
    /\ IF answerIndex = question.correct
          THEN /\ score' = score + PointsPerCorrect
               /\ lives' = lives
          ELSE /\ lives' = lives - 1
               /\ score' = score
    /\ UNCHANGED << currentLesson, currentQuestion, showHint, orderedWords,
                    isPlaying >>

\* Option buttons that stay enabled after the reveal.
OptionEnabled_always == TRUE

\* disabled={showAnswer} and the guard of onClick: the click is accepted
OptionEnabled == ~showAnswer

\* An option button of a video-choice question is clicked:
\* onClick={() => !showAnswer && handleAnswer(index)}
OptionClick(index) ==
    /\ VideoShown
    /\ index \in 0..(question.options - 1)
    /\ lastEvent' = Event("option", index)
    /\ IF OptionEnabled
          THEN /\ handleAnswer(index)
               /\ videoPaused' = PausedAfterRender(videoPaused, lives' # 0)
          ELSE UNCHANGED << session, videoPaused >>
    /\ UNCHANGED << lessons, screen >>

\* Word buttons that are never disabled.
WordDisabled_never(k) == FALSE

\* disabled={orderedWords.includes(word)}
WordDisabled(k) == Includes(orderedWords, Word(k))

\* The word objects of the current question that the identities in s name.
Picked(s) == [j \in 1..Len(s) |-> question.words[s[j][3] + 1]]

\* The texts of the words of ws, concatenated.
RECURSIVE Joined(_)
Joined(ws) == IF ws = << >> THEN << >> ELSE Head(ws).text \o Joined(Tail(ws))

\* A word click that also awards the points once the picked words make the
\* correct sentence.
WordClick_scores(k) ==
    /\ WordsShown
    /\ k \in 0..(Len(question.words) - 1)
    /\ lastEvent' = Event("word", k)
    /\ orderedWords' = IF WordDisabled(k)
                          THEN orderedWords
                          ELSE Append(orderedWords, Word(k))
    /\ score' = IF Joined(Picked(orderedWords')) = question.sentence
                   THEN score + PointsPerCorrect
                   ELSE score
    /\ UNCHANGED << lessons, currentLesson, currentQuestion, selectedAnswer,
                    showAnswer, lives, showHint, isPlaying,
                    videoPaused, screen >>

\* A word button of a word-order question is clicked: the handler appends
\* the word; a disabled button delivers no click.
WordClick(k) ==
    /\ WordsShown
    /\ k \in 0..(Len(question.words) - 1)
    /\ lastEvent' = Event("word", k)
    /\ orderedWords' = IF WordDisabled(k)
                          THEN orderedWords
                          ELSE Append(orderedWords, Word(k))
    /\ UNCHANGED << lessons, currentLesson, currentQuestion, selectedAnswer,
                    showAnswer, lives, showHint, score, isPlaying,
                    videoPaused, screen >>

\* onClick={() => setShowHint(true)}
HintClick ==
    /\ HintButtonShown
    /\ lastEvent' = Event("hint", NoAnswer)
    /\ showHint' = TRUE
    /\ UNCHANGED << lessons, currentLesson, currentQuestion, selectedAnswer,
                    showAnswer, lives, score, orderedWords, isPlaying,
                    videoPaused, screen >>

\* handleVideoPlay: videoRef.current is the shown <video>.  play() leaves
\* the element paused when the media cannot be played.
handleVideoPlay ==
    /\ VideoShown
    /\ lastEvent' = Event("play", NoAnswer)
    /\ IF videoPaused
          THEN /\ videoPaused' \in BOOLEAN
               /\ isPlaying' = TRUE
          ELSE /\ videoPaused' = TRUE
               /\ isPlaying' = FALSE
    /\ UNCHANGED << lessons, currentLesson, currentQuestion, selectedAnswer,
                    showAnswer, lives, showHint, score, orderedWords, screen >>

\* onEnded={() => setIsPlaying(false)}: playback reached the end; browsers
\* differ on whether the element then reports paused.
VideoEnded ==
    /\ VideoShown
    /\ ~videoPaused
    /\ lastEvent' = Event("ended", NoAnswer)
    /\ isPlaying' = FALSE
    /\ videoPaused' \in BOOLEAN
    /\ UNCHANGED << lessons, currentLesson, currentQuestion, selectedAnswer,
                    showAnswer, lives, showHint, score, orderedWords, screen >>

\* The three branches of handleNext.
IsLastQuestion == ~(currentQuestion < Len(lesson) - 1)
IsLastLesson == ~(currentLesson < Len(lessons) - 1)

\* handleNext whose last branch does not navigate.
handleNext_noNavigate ==
    /\ IF currentQuestion < Len(lesson) - 1
          THEN /\ currentQuestion' = currentQuestion + 1
               /\ UNCHANGED << currentLesson, screen >>
          ELSE IF currentLesson < Len(lessons) - 1
                  THEN /\ currentLesson' = currentLesson + 1
                       /\ currentQuestion' = 0
                       /\ UNCHANGED screen
                  ELSE UNCHANGED << screen, currentLesson, currentQuestion >>
    /\ selectedAnswer' = NoAnswer
    /\ showAnswer' = FALSE
    /\ showHint' = FALSE
    /\ isPlaying' = FALSE
    /\ UNCHANGED << lives, score, orderedWords >>

\* handleNext without setShowHint(false).
handleNext_keepsHint ==
    /\ IF currentQuestion < Len(lesson) - 1
          THEN /\ currentQuestion' = currentQuestion + 1
               /\ UNCHANGED << currentLesson, screen >>
          ELSE IF currentLesson < Len(lessons) - 1
                  THEN /\ currentLesson' = currentLesson + 1
                       /\ currentQuestion' = 0
                       /\ UNCHANGED screen
                  ELSE /\ screen' = "completed"
                       /\ UNCHANGED << currentLesson, currentQuestion >>
    /\ selectedAnswer' = NoAnswer
    /\ showAnswer' = FALSE
    /\ isPlaying' = FALSE
    /\ UNCHANGED << lives, score, orderedWords, showHint >>

\* handleNext without setSelectedAnswer(null).
handleNext_keepsSelected ==
    /\ IF currentQuestion < Len(lesson) - 1
          THEN /\ currentQuestion' = currentQuestion + 1
               /\ UNCHANGED << currentLesson, screen >>
          ELSE IF currentLesson < Len(lessons) - 1
                  THEN /\ currentLesson' = currentLesson + 1
                       /\ currentQuestion' = 0
                       /\ UNCHANGED screen
                  ELSE /\ screen' = "completed"
                       /\ UNCHANGED << currentLesson, currentQuestion >>
    /\ showAnswer' = FALSE
    /\ showHint' = FALSE
    /\ isPlaying' = FALSE
    /\ UNCHANGED << lives, score, orderedWords, selectedAnswer >>

\* handleNext, on the session fields and the route
handleNext ==
    /\ IF currentQuestion < Len(lesson) - 1
          THEN /\ currentQuestion' = currentQuestion + 1
               /\ UNCHANGED << currentLesson, screen >>
          ELSE IF currentLesson < Len(lessons) - 1
                  THEN /\ currentLesson' = currentLesson + 1
                       /\ currentQuestion' = 0
                       /\ UNCHANGED screen
                  ELSE /\ screen' = "completed"
                       /\ UNCHANGED << currentLesson, currentQuestion >>
    /\ selectedAnswer' = NoAnswer
    /\ showAnswer' = FALSE
    /\ showHint' = FALSE
    /\ isPlaying' = FALSE
    /\ UNCHANGED << lives, score, orderedWords >>

\* The next button is clicked; handleNext also rewinds and pauses the
\* shown <video>.
NextClick ==
    /\ NextButtonShown
    /\ lastEvent' = Event("next", NoAnswer)
    /\ handleNext
    /\ videoPaused' =
          PausedAfterRender(TRUE, screen' = "quiz"
                                   /\ IsVideo(currentLesson', currentQuestion'))
    /\ UNCHANGED lessons

\* The retry handler without setScore(0).
retry_keepsScore ==
    /\ lives' = InitialLives
    /\ currentQuestion' = 0
    /\ currentLesson' = 0
    /\ orderedWords' = << >>
    /\ UNCHANGED << score, selectedAnswer, showAnswer, showHint, isPlaying >>

\* The retry handler without setLives(3).
retry_keepsLives ==
    /\ score' = 0
    /\ currentQuestion' = 0
    /\ currentLesson' = 0
    /\ orderedWords' = << >>
    /\ UNCHANGED << lives, selectedAnswer, showAnswer, showHint, isPlaying >>

\* The retry handler without setCurrentQuestion(0).
retry_keepsQuestion ==
    /\ lives' = InitialLives
    /\ score' = 0
    /\ currentLesson' = 0
    /\ orderedWords' = << >>
    /\ UNCHANGED << currentQuestion, selectedAnswer, showAnswer, showHint,
                    isPlaying >>

\* The onClick of the retry button of the game-over panel
retry ==
    /\ lives' = InitialLives
    /\ score' = 0
    /\ currentQuestion' = 0
    /\ currentLesson' = 0
    /\ orderedWords' = << >>
    /\ UNCHANGED << selectedAnswer, showAnswer, showHint, isPlaying >>

RetryClick ==
    /\ GameOver
    /\ lastEvent' = Event("retry", NoAnswer)
    /\ retry
    /\ videoPaused' = TRUE
    /\ UNCHANGED << lessons, screen >>

\* The back button of the main panel: navigate('/')
BackClick ==
    /\ QuestionShown
    /\ lastEvent' = Event("back", NoAnswer)
    /\ screen' = "left"
    /\ videoPaused' = TRUE
    /\ UNCHANGED << lessons, session >>

Next ==
    \/ \E index \in OptionIndices : OptionClick(index)
    \/ \E k \in WordIndices : WordClick(k)
    \/ HintClick
    \/ handleVideoPlay
    \/ VideoEnded
    \/ NextClick
    \/ RetryClick
    \/ BackClick

Spec == Init /\ [][Next]_vars

\* ------------------------------------------------------- type invariant --
TypeOK ==
    /\ lessons \in Tables
    /\ currentLesson \in 0..(Len(lessons) - 1)
    /\ currentQuestion \in 0..(Len(lesson) - 1)
    /\ selectedAnswer \in {NoAnswer} \cup OptionIndices
    /\ showAnswer \in BOOLEAN
    /\ lives \in 0..InitialLives
    /\ showHint \in BOOLEAN
    /\ score \in Nat
    /\ isPlaying \in BOOLEAN
    /\ videoPaused \in BOOLEAN
    /\ screen \in {"quiz", "completed", "left"}

\* ================================================================ claims ==
\* The operation of the step into a state is lastEvent.op: "option" is
\* submitAnswer, "word" appendWord, "next" advance, "retry" reset.

\* C1: every submitAnswer(i) accepted while the answer is not revealed sets
\* selectedAnswer = i and showAnswer = TRUE and changes exactly one of score
\* and lives: score + 10 (lives unchanged) when i is the current question's
\* correct index, otherwise lives - 1 (score unchanged).  Except by reset,
\* score never decreases and lives never increases.
C1_SubmitAnswerScoring ==
    [][ /\ (lastEvent'.op = "option" /\ ~showAnswer) =>
             /\ selectedAnswer' = lastEvent'.arg
             /\ showAnswer' = TRUE
             /\ \/ /\ lastEvent'.arg = question.correct
                   /\ score' = score + 10
                   /\ lives' = lives
                \/ /\ lastEvent'.arg # question.correct
                   /\ lives' = lives - 1
                   /\ score' = score
        /\ (lastEvent'.op # "retry") => (score' >= score /\ lives' <= lives)
      ]_vars

\* C1 witness: a submitAnswer was just accepted in a session that has had
\* both a correct and a wrong answer.
C1_Witness ==
    /\ lastEvent.op = "option"
    /\ showAnswer
    /\ selectedAnswer = lastEvent.arg
    /\ score > 0
    /\ lives < 3

\* C2: submitAnswer invoked while the answer is revealed changes no field of
\* the session (score, lives, selectedAnswer, showAnswer, the indices, the
\* hint, the words, the playback flag, the route).
C2_RevealedSubmitIsNoOp ==
    [][ (lastEvent'.op = "option" /\ showAnswer) =>
            UNCHANGED << session, videoPaused, screen, lessons >> ]_vars

\* C2 witness: the last event is a click on an option other than the one
\* that was selected, so it came after the reveal and was ignored.
C2_Witness ==
    /\ lastEvent.op = "option"
    /\ showAnswer
    /\ selectedAnswer # NoAnswer
    /\ selectedAnswer # lastEvent.arg

\* C3: lives is always in 0..3; when lives = 0 the game-over panel is what
\* is rendered; and from lives = 0 no step changes score or lives except
\* reset.
C3_LivesAndGameOver ==
    /\ [](lives \in 0..3 /\ (lives = 0 => (GameOver /\ ~QuestionShown)))
    /\ [][ lives = 0 =>
              \/ lastEvent'.op = "retry"
              \/ (score' = score /\ lives' = lives) ]_vars

\* C3 witness: game over with points scored.
C3_Witness == GameOver /\ lives = 0 /\ score > 0 /\ lastEvent.op = "option"

\* C4: an advance that is not on the last question of the last lesson moves
\* to the next question of the lesson, or from a lesson's last question to
\* question 0 of the next lesson (a strict lexicographic increase), and
\* stays on the quiz; an advance on the last question of the last lesson
\* enters Completed; Completed is entered by nothing else and never left or
\* re-entered.
C4_AdvanceProgress ==
    [][ /\ (lastEvent'.op = "next" /\ ~(IsLastQuestion /\ IsLastLesson)) =>
             /\ screen' = "quiz"
             /\ IF currentQuestion + 1 < Len(lesson)
                   THEN /\ currentLesson' = currentLesson
                        /\ currentQuestion' = currentQuestion + 1
                   ELSE /\ currentLesson' = currentLesson + 1
                        /\ currentQuestion' = 0
        /\ (lastEvent'.op = "next" /\ IsLastQuestion /\ IsLastLesson) =>
             screen' = "completed"
        /\ (screen' = "completed") =>
             (lastEvent'.op = "next" /\ IsLastQuestion /\ IsLastLesson)
        /\ screen # "completed"
      ]_vars

\* C4 witness: Completed was entered on a table of several lessons.
C4_Witness == screen = "completed" /\ Len(lessons) >= 2 /\ Len(lessons[1]) >= 2

\* C5: right after a non-terminal advance, selectedAnswer is null and
\* showAnswer, showHint and isPlaying are false.
C5_AdvanceClearsFlags ==
    (lastEvent.op = "next" /\ screen = "quiz") =>
        /\ selectedAnswer = NoAnswer
        /\ showAnswer = FALSE
        /\ showHint = FALSE
        /\ isPlaying = FALSE

\* C5 witness: a non-terminal advance has just happened.
C5_Witness == lastEvent.op = "next" /\ screen = "quiz" /\ currentQuestion > 0


\* The words of the current question, as identities.
CurrentWords == { Word(k) : k \in 0..(Len(question.words) - 1) }

\* C6: right after a non-terminal advance orderedWords is empty, and in
\* every state on the quiz orderedWords holds only words of the current
\* question.
C6_OrderedWordsOfCurrentQuestion ==
    /\ (lastEvent.op = "next" /\ screen = "quiz") => orderedWords = << >>
    /\ Mounted =>
         \A j \in 1..Len(orderedWords) : orderedWords[j] \in CurrentWords

\* C6 witness: an advance has just arrived at a word-order question.
C6_Witness == lastEvent.op = "next" /\ WordsShown

\* C7: right after reset, lives = 3, score = 0, both indices are 0 and
\* orderedWords is empty.
C7_ResetRestoresProgress ==
    lastEvent.op = "retry" =>
        /\ lives = 3
        /\ score = 0
        /\ currentLesson = 0
        /\ currentQuestion = 0
        /\ orderedWords = << >>

\* C7 witness: reset has just been performed on a table where game over can
\* come with points scored and past the first lesson.
C7_Witness == lastEvent.op = "retry" /\ Len(lessons) >= 2 /\ Len(lessons[1]) >= 2

\* C8: right after reset the session is the in-progress state of mount:
\* the answer is not revealed, no answer is selected, the hint is hidden,
\* and an option click on question 0 of lesson 0 is accepted.
C8_ResetReturnsToMountState ==
    lastEvent.op = "retry" =>
        /\ showAnswer = FALSE
        /\ selectedAnswer = NoAnswer
        /\ showHint = FALSE
        /\ OptionEnabled

\* No word identity occurs twice in s.
NoDuplicates(s) == \A i, j \in 1..Len(s) : s[i] = s[j] => i = j

\* C9: orderedWords never holds a word identity twice, and appendWord(w)
\* with w already in orderedWords leaves orderedWords unchanged.
C9_NoDuplicateWords ==
    /\ [] NoDuplicates(orderedWords)
    /\ [][ (lastEvent'.op = "word"
              /\ Includes(orderedWords, Word(lastEvent'.arg))) =>
             orderedWords' = orderedWords ]_vars

\* C9 witness: the last event is appendWord of a word that was picked
\* before another one, so it was a repeated invocation.
C9_Witness ==
    /\ lastEvent.op = "word"
    /\ Len(orderedWords) >= 2
    /\ orderedWords[1] = Word(lastEvent.arg)

\* C10: on the repository's lesson table, while a question is shown, advance
\* is enabled on a video-choice question only when the answer is revealed,
\* and is always enabled on a word-order question.
C10_AdvanceEnabled ==
    (lessons = RepoLessons /\ QuestionShown) =>
        IF question.type = "word-order"
           THEN ENABLED NextClick
           ELSE (ENABLED NextClick) => showAnswer

\* The learner can still move towards the end of the quiz: the next button
\* is there, or an option of the shown question can still be submitted.
CanProgress == (ENABLED NextClick) \/ (VideoShown /\ OptionEnabled)

\* C11: on the repository's lesson table Completed can be reached from the
\* mount state: every question that is shown can be answered or advanced
\* past, up to the advance on the last question that navigates home; and
\* once Completed no operation is enabled any more.
C11_RepoCompletedReachable ==
    /\ (lessons = RepoLessons /\ QuestionShown) => CanProgress
    /\ (lessons = RepoLessons /\ screen = "completed") => ~ENABLED Next

\* On the repository's lesson table Completed is never entered.
C11_RepoNeverCompleted == lessons = RepoLessons => screen # "completed"

\* An operation other than reset is enabled.
OtherThanRetryEnabled ==
    \/ ENABLED (\E index \in OptionIndices : OptionClick(index))
    \/ ENABLED (\E k \in WordIndices : WordClick(k))
    \/ ENABLED HintClick
    \/ ENABLED handleVideoPlay
    \/ ENABLED VideoEnded
    \/ ENABLED NextClick
    \/ ENABLED BackClick

\* C12: every wrong submitAnswer accepted on a fresh reveal takes exactly one
\* life, so three of them drive lives 3 -> 2 -> 1 -> 0, and at 0 the session
\* is in GameOver; in GameOver reset is enabled and nothing else is; reset
\* leads back to the in-progress panel with three lives.
C12_ThreeWrongThenGameOver ==
    /\ [][ (lastEvent'.op = "option" /\ ~showAnswer
              /\ lastEvent'.arg # question.correct) =>
             /\ lives \in 1..3
             /\ lives' = lives - 1
             /\ (lives = 1 => GameOver') ]_vars
    /\ [](GameOver => ((ENABLED RetryClick) /\ ~OtherThanRetryEnabled))
    /\ [][ lastEvent'.op = "retry" =>
             (GameOver /\ QuestionShown' /\ lives' = 3) ]_vars

\* C12 witness: game over without a single correct answer, that is after
\* exactly three wrong answers.
C12_Witness == GameOver /\ score = 0 /\ lastEvent.op = "option"

\* The sequence s without its i-th element.
Without(s, i) == [j \in 1..(Len(s) - 1) |-> IF j < i THEN s[j] ELSE s[j + 1]]

\* The index of the first word of ws with the least order.
FirstLeast(ws) ==
    CHOOSE i \in 1..Len(ws) :
        /\ \A j \in 1..Len(ws) : ws[i].order <= ws[j].order
        /\ \A j \in 1..(i - 1) : ws[j].order > ws[i].order

\* The words sorted by ascending order.
RECURSIVE SortByOrder(_)
SortByOrder(ws) ==
    IF ws = << >>
       THEN << >>
       ELSE << ws[FirstLeast(ws)] >> \o SortByOrder(Without(ws, FirstLeast(ws)))

\* The content rule for one question.
ValidQuestion(qn) ==
    IF qn.type = "word-order"
       THEN Joined(SortByOrder(qn.words)) = qn.sentence
       ELSE qn.correct \in 0..(qn.options - 1)

\* C13: in the lesson data every word-order question's words, sorted by
\* ascending order and concatenated, give its correct sentence exactly, and
\* every video-choice question's correct is an index into its options.
C13_ContentValid ==
    \A l \in 1..Len(lessons) : \A q \in 1..Len(lessons[l]) :
        ValidQuestion(lessons[l][q])

\* C13 witness: the repository's table is loaded and its word-order
\* question, whose words are listed out of order, is the one shown.
C13_Witness ==
    /\ lessons = RepoLessons
    /\ WordsShown
    /\ Joined(question.words) # question.sentence

\* C14: in every state, also after the terminal advance and after reset,
\* 0 <= currentLesson < number of lessons and 0 <= currentQuestion < number
\* of questions of the current lesson.
C14_IndicesInRange ==
    /\ currentLesson \in 0..(Len(lessons) - 1)
    /\ currentQuestion \in 0..(Len(lessons[currentLesson + 1]) - 1)

\* C14 witness: the terminal advance has been made from the last question
\* of a second lesson.
C14_Witness ==
    /\ screen = "completed"
    /\ currentLesson = Len(lessons) - 1
    /\ currentLesson > 0
    /\ currentQuestion = Len(lesson) - 1

\* C15: appendWord changes orderedWords only: score, lives, selectedAnswer,
\* showAnswer, showHint, isPlaying and the indices stay as they are, whether
\* or not the picked words make the correct sentence.
C15_AppendWordFrame ==
    [][ lastEvent'.op = "word" =>
          UNCHANGED << score, lives, selectedAnswer, showAnswer, showHint,
                       isPlaying, currentLesson, currentQuestion, screen,
                       lessons >> ]_vars

\* C15 witness: on the repository's table the last appendWord completed the
\* correct sentence.
C15_Witness ==
    /\ lessons = RepoLessons
    /\ WordsShown
    /\ lastEvent.op = "word"
    /\ orderedWords # << >>
    /\ orderedWords[Len(orderedWords)] = Word(lastEvent.arg)
    /\ Joined(Picked(orderedWords)) = question.sentence

\* C16: toggleHint sets showHint to TRUE and is taken only while the answer
\* is not revealed; showHint, once TRUE, becomes FALSE by an advance only.
C16_HintOneWay ==
    [][ /\ lastEvent'.op = "hint" => (~showAnswer /\ showHint' = TRUE)
        /\ (showHint /\ ~showHint') => lastEvent'.op = "next" ]_vars

\* C16 witness: the hint was shown before the reveal and is still shown
\* after it.
C16_Witness == QuestionShown /\ showHint /\ showAnswer

\* C17: togglePlayback flips isPlaying and leaves score, lives,
\* selectedAnswer, showAnswer and the indices unchanged.  Stated for the
\* states right after reset, where the <video> element is newly created, so
\* that the outcome does not depend on the media.
C17_PlaybackFlips ==
    [][ (lastEvent.op = "retry" /\ lastEvent'.op = "play") =>
          /\ isPlaying' = ~isPlaying
          /\ UNCHANGED << score, lives, selectedAnswer, showAnswer,
                          currentLesson, currentQuestion >> ]_vars

\* C18: showAnswer is TRUE exactly when selectedAnswer is not null, and the
\* two fields are changed by an accepted submitAnswer and by advance only.
C18_RevealedIffSelected ==
    /\ [](showAnswer <=> (selectedAnswer # NoAnswer))
    /\ [][ (showAnswer' # showAnswer \/ selectedAnswer' # selectedAnswer) =>
             \/ (lastEvent'.op = "option" /\ ~showAnswer)
             \/ lastEvent'.op = "next" ]_vars

\* C18 witness: right after reset both fields still hold the values of the
\* answer that ended the game.
C18_Witness ==
    lastEvent.op = "retry" /\ showAnswer /\ selectedAnswer # NoAnswer

\* The number of answers the score and the lives account for.
Answered == (score \div 10) + (3 - lives)

\* C19: score is a non-negative multiple of 10, and score/10 + (3 - lives)
\* counts the submitAnswer calls accepted since mount or the last reset: it
\* is 0 at mount and right after reset, goes up by one with every accepted
\* submitAnswer and is changed by nothing else.
C19_ScoreAndLivesCountAnswers ==
    /\ [](score >= 0 /\ score % 10 = 0)
    /\ [](lastEvent.op \in {"mount", "retry"} => Answered = 0)
    /\ [][ IF lastEvent'.op = "retry"
              THEN Answered' = 0
              ELSE IF lastEvent'.op = "option" /\ ~showAnswer
                      THEN Answered' = Answered + 1
                      ELSE Answered' = Answered ]_vars

\* C19 witness: several answers, correct and wrong, have been accepted.
C19_Witness == score >= 20 /\ lives = 1 /\ lastEvent.op = "option"

=============================================================================
